---- MODULE Spec2Model ----
(***************************************************************************)
(* The Coral connector of Yona_Langchain: the SSE client with its listener *)
(* and heartbeat threads, the message processor (dispatch), the connector  *)
(* that supervises them, and the retry loops of the MCP agent variants.    *)
(***************************************************************************)
EXTENDS Integers, Sequences, FiniteSets, TLC

VARIABLES
    \* ---- YonaCoralConnector / CoralSSEClient ----
    handler_kind,     \* the callable given to CoralSSEClient.connect
    running,          \* YonaCoralConnector.running
    sse_client,       \* YonaCoralConnector.sse_client is not None
    connected,        \* CoralSSEClient.connected
    stop_event,       \* CoralSSEClient.stop_event.is_set()
    stream,           \* the SSE response: "none", "open", "closed"
    listen_thread,    \* position of _listen_for_messages
    listen_end,       \* how the listener's loop ended
    heartbeat_thread, \* position of _heartbeat
    main_pc,          \* position of the main thread (coral_connector.main)
    stop_pc,          \* position inside stop() / disconnect()
    stop_ctx,         \* who called the stop() in progress
    stop_log,         \* the calls of stop(): caller, state at call and at return
    exit_code,        \* process exit status, -1 while running
    opens,            \* number of CoralSSEClient.connect calls
    delivered,        \* events the stream has yielded
    cur,              \* the event the listener holds
    cur_status,       \* what the listener did with it
    prev_status,      \* what the listener did with the event before it
    reply,            \* what process_message returned for cur
    nsends,           \* outbound sends issued for cur
    last_send,        \* the last outbound send
    invoked,          \* registry handlers invoked for cur
    handler_exc,      \* the exception message_handler let escape for cur
    \* ---- yona_coral_langchain_agent.main ----
    lc_pc,            \* position in main's while loop
    lc_attempt,       \* main's `attempt`
    lc_connects,      \* connection attempts made
    lc_failures,      \* attempts that failed since the last session
    lc_sessions,      \* attempts that opened a session
    lc_exit,          \* process exit status, -1 while running
    \* ---- YonaCoralAgent.run ----
    ag_pc,            \* position in run's for loop
    ag_attempt,       \* run's `attempt`
    ag_connects,      \* connection attempts made
    ag_failures,      \* attempts that failed since the last session
    ag_sessions,      \* attempts that opened a session
    ag_exit,          \* process exit status, -1 while running
    \* ---- YonaCoralHttpAgent and its CoralHttpClient ----
    h_running,          \* YonaCoralHttpAgent.running
    h_session,          \* coral_client.session: "none", "open" or "closed"
    h_heartbeat_thread, \* position of heartbeat_loop
    h_message_thread,   \* position of message_loop
    h_mentions,         \* mentions of the current batch still to be handled
    h_polls,            \* wait_for_mentions calls made
    h_beats             \* heartbeat calls made

connVars == <<handler_kind, running, sse_client, connected, stop_event, stream,
              listen_thread, listen_end, heartbeat_thread, main_pc, stop_pc,
              stop_ctx, stop_log, exit_code, opens, delivered, cur,
              cur_status, prev_status, reply, nsends, last_send, invoked,
              handler_exc>>
lcVars == <<lc_pc, lc_attempt, lc_connects, lc_failures, lc_sessions, lc_exit>>
agVars == <<ag_pc, ag_attempt, ag_connects, ag_failures, ag_sessions, ag_exit>>
retryVars == <<lcVars, agVars>>
httpVars == <<h_running, h_session, h_heartbeat_thread, h_message_thread, h_mentions,
              h_polls, h_beats>>
vars == <<connVars, retryVars, httpVars>>

\* ---- bounds of the model ----
MaxEvents == 2
MaxConnects == 7

(***************************************************************************)
(* Messages.  An SSE event carries a payload; a payload that parses to a   *)
(* JSON object is described by the fields the code reads from it.          *)
(***************************************************************************)
\* CoralMessageProcessor.supported_functions, in insertion order
supported_functions == <<"create_song", "list_songs", "get_song", "search_songs">>

Range(s) == {s[i] : i \in DOMAIN s}

SupportedNames == Range(supported_functions)

\* "remix_song": a name outside the registry; "missing": no "function" key;
\* "unhashable": a JSON list or object in place of the name
FunctionValues == SupportedNames \cup {"remix_song", "missing", "unhashable"}

\* "absent": no key; "null": null or another non-object; "empty": {};
\* "full": an object with the handler's required keys set
ArgumentValues == {"absent", "null", "empty", "full"}

TypeValues == {"function_call", "heartbeat", "agent_discovery", "unknown", "missing"}

Msg(j, t, f, a, ms, id, s) ==
    [json |-> j, type |-> t, function |-> f, arguments |-> a,
     meta |-> ms, message_id |-> id, sender |-> s]

\* the shapes of the "metadata" field: no key, a non-object, an object
MetaShapes ==
    {<<"absent", "none", "none">>, <<"nonmap", "none", "none">>,
     <<"map", "none", "angus_agent">>, <<"map", "c1", "angus_agent">>,
     <<"map", "c2", "angus_agent">>, <<"map", "c1", "yona_agent">>}

NoMsg == Msg("none", "missing", "missing", "absent", "absent", "none", "none")

FunctionCalls ==
    {Msg("dict", "function_call", f, a, m[1], m[2], m[3]) :
        f \in FunctionValues, a \in ArgumentValues, m \in MetaShapes}

OtherEnvelopes ==
    {Msg("dict", t, "missing", "absent", m[1], m[2], m[3]) :
        t \in TypeValues \ {"function_call"}, m \in MetaShapes}

\* payloads that are no JSON object: empty data, invalid JSON, a JSON non-object
NonObjects ==
    {Msg(j, "missing", "missing", "absent", "absent", "none", "none") :
        j \in {"empty", "bad", "nondict"}}

Events == FunctionCalls \cup OtherEnvelopes \cup NonObjects

\* a message handler other than the connector's is opaque: one JSON object
\* stands for all of them
OpaqueEvents ==
    NonObjects \cup {Msg("dict", "unknown", "missing", "absent", "absent", "none", "none")}

EventsFor(kind) == IF kind = "connector" THEN Events ELSE OpaqueEvents

(***************************************************************************)
(* CoralMessageProcessor                                                   *)
(***************************************************************************)
Returns == [raised |-> FALSE, error |-> "none"]
Raises(text) == [raised |-> TRUE, error |-> text]

AttributeErrorGet == "'NoneType' object has no attribute 'get'"

handle_create_song(arguments) ==
    IF arguments = "null" THEN Raises(AttributeErrorGet)
    ELSE IF arguments \in {"absent", "empty"}
         THEN Raises("Missing required argument: prompt")
         ELSE Returns

handle_list_songs(arguments) ==
    IF arguments = "null" THEN Raises(AttributeErrorGet) ELSE Returns

handle_get_song(arguments) ==
    IF arguments = "null" THEN Raises(AttributeErrorGet)
    ELSE IF arguments \in {"absent", "empty"}
         THEN Raises("Missing required argument: song_id")
         ELSE Returns

handle_search_songs(arguments) ==
    IF arguments = "null" THEN Raises(AttributeErrorGet)
    ELSE IF arguments \in {"absent", "empty"}
         THEN Raises("Missing required argument: query")
         ELSE Returns

\* self.supported_functions[function_name](arguments)
handler(function_name, arguments) ==
    CASE function_name = "create_song" -> handle_create_song(arguments)
      [] function_name = "list_songs" -> handle_list_songs(arguments)
      [] function_name = "get_song" -> handle_get_song(arguments)
      [] function_name = "search_songs" -> handle_search_songs(arguments)

\* message_data.get("metadata", {}).get("message_id") raises AttributeError
metadata_get_raises(m) == m.meta = "nonmap"

correlation_id(m) == IF m.meta = "map" THEN m.message_id ELSE "none"

Reply(t, f, e, c, l) ==
    [type |-> t, function |-> f, error |-> e, corr |-> c, listed |-> l,
     agent_id |-> "none", description |-> FALSE, described |-> {}]

NoReply == Reply("none", "none", "none", "none", {})

\* the reply of process_message's own except clause
ErrorReply(text) == Reply("error", "none", text, "none", {})

\* _handle_function_call reaches the call of a registry handler
handler_invoked(m) ==
    /\ m.json = "dict"
    /\ m.type = "function_call"
    /\ ~metadata_get_raises(m)
    /\ m.function \in SupportedNames

\* _handle_function_call without its try/except: a handler's exception escapes
handle_function_call_uncaught(m) ==
    IF metadata_get_raises(m)
    THEN [raised |-> TRUE, reply |-> ErrorReply(AttributeErrorGet)]
    ELSE IF m.function \notin SupportedNames
    THEN [raised |-> FALSE,
          reply |-> Reply("function_error", m.function, "Unsupported function",
                          correlation_id(m), SupportedNames)]
    ELSE LET r == handler(m.function, m.arguments) IN
         IF r.raised
         THEN [raised |-> TRUE, reply |-> ErrorReply(r.error)]
         ELSE [raised |-> FALSE,
               reply |-> Reply("function_response", m.function, "none",
                               correlation_id(m), {})]

\* [raised, reply]: the reply returned, or the exception that escapes
handle_function_call(m) ==
    IF metadata_get_raises(m)
    THEN \* line 81 raises; the except clause evaluates line 115 and raises again
         [raised |-> TRUE, reply |-> ErrorReply(AttributeErrorGet)]
    ELSE IF m.function = "unhashable"
    THEN \* `function_name not in self.supported_functions` raises TypeError
         [raised |-> FALSE,
          reply |-> Reply("function_error", m.function, "unhashable type",
                          correlation_id(m), {})]
    ELSE IF m.function \notin SupportedNames
    THEN [raised |-> FALSE,
          reply |-> Reply("function_error", m.function, "Unsupported function",
                          correlation_id(m), SupportedNames)]
    ELSE LET r == handler(m.function, m.arguments) IN
         IF r.raised
         THEN [raised |-> FALSE,
               reply |-> Reply("function_error", m.function, r.error,
                               correlation_id(m), {})]
         ELSE [raised |-> FALSE,
               reply |-> Reply("function_response", m.function, "none",
                               correlation_id(m), {})]

\* a capability list written out by hand instead of read from the registry
handle_heartbeat_static(m) ==
    [Reply("heartbeat_response", "none", "none", "none", {"create_song"})
        EXCEPT !.agent_id = "yona_agent"]

\* "capabilities": list(self.supported_functions.keys())
handle_heartbeat(m) ==
    [Reply("heartbeat_response", "none", "none", "none", SupportedNames)
        EXCEPT !.agent_id = "yona_agent"]

\* the keys of the literal "description" map of the agent_info reply
function_descriptions == {"create_song", "list_songs", "get_song", "search_songs"}

\* "functions": list(self.supported_functions.keys()), the agent id, the
\* description text and the literal per-function description map
handle_agent_discovery(m) ==
    [Reply("agent_info", "none", "none", "none", SupportedNames)
        EXCEPT !.agent_id = "yona_agent", !.description = TRUE,
               !.described = function_descriptions]

\* a dispatcher that answers a kind it does not know with an error reply
process_message_strict(m) ==
    IF m.json # "dict"
    THEN ErrorReply(AttributeErrorGet)
    ELSE IF m.type = "function_call"
    THEN LET r == handle_function_call(m) IN
         IF r.raised THEN ErrorReply(r.reply.error) ELSE r.reply
    ELSE IF m.type = "heartbeat" THEN handle_heartbeat(m)
    ELSE IF m.type = "agent_discovery" THEN handle_agent_discovery(m)
    ELSE ErrorReply("unknown type")

process_message(m) ==
    IF m.json # "dict"
    THEN \* message_data.get raises AttributeError on a non-object
         ErrorReply(AttributeErrorGet)
    ELSE IF m.type = "function_call"
    THEN LET r == handle_function_call(m) IN
         IF r.raised THEN ErrorReply(r.reply.error) ELSE r.reply
    ELSE IF m.type = "heartbeat" THEN handle_heartbeat(m)
    ELSE IF m.type = "agent_discovery" THEN handle_agent_discovery(m)
    ELSE NoReply


(***************************************************************************)
(* YonaCoralConnector._handle_message: what it sends for a message         *)
(***************************************************************************)
Send(k, f, c, e) ==
    [kind |-> k, function |-> f, corr |-> c, error |-> e, ok |-> FALSE]

NoSend == Send("none", "none", "none", "none")

\* message_data.get("function", "unknown")
send_function_name(m) == IF m.function = "missing" THEN "unknown" ELSE m.function

\* the send _handle_message issues once process_message has returned `response`
handle_message(m, response) ==
    IF response.type = "none" THEN NoSend
    ELSE IF m.json # "dict" \/ metadata_get_raises(m)
    THEN \* lines 103-105 raise; the except clause raises again at lines
         \* 133-134, before its send, and the inner except only logs
         NoSend
    ELSE IF response.type = "function_response"
    THEN Send("function_response", send_function_name(m), correlation_id(m), "none")
    ELSE IF response.type = "function_error"
    THEN Send("function_error", send_function_name(m), correlation_id(m),
              response.error)
    ELSE NoSend

\* the exception that leaves _handle_message: with a reply to deliver, line
\* 105 calls .get on the message or on its "metadata" value, and the except
\* clause repeats the expression at lines 133-134 outside its inner try
handle_message_raises(m, response) ==
    IF response.type # "none" /\ (m.json # "dict" \/ metadata_get_raises(m))
    THEN "AttributeError"
    ELSE "none"

(***************************************************************************)
(* State after construction                                                *)
(***************************************************************************)
InitConn ==
    /\ handler_kind \in {"connector", "generic"}
    /\ running = FALSE
    /\ sse_client = FALSE
    /\ connected = FALSE
    /\ stop_event = FALSE
    /\ stream = "none"
    /\ listen_thread = "none"
    /\ listen_end = "none"
    /\ heartbeat_thread = "none"
    /\ main_pc = "init"
    /\ stop_pc = "none"
    /\ stop_ctx = "none"
    /\ stop_log = <<>>
    /\ exit_code = -1
    /\ opens = 0
    /\ delivered = 0
    /\ cur = NoMsg
    /\ cur_status = "none"
    /\ prev_status = "none"
    /\ reply = NoReply
    /\ nsends = 0
    /\ last_send = NoSend
    /\ invoked = 0
    /\ handler_exc = "none"

Alive(t) == t \notin {"none", "done"}

\* the thread waits for something that can take longer than a join's 5
\* seconds: the next event, a handler, a POST (timeout 10), time.sleep(30)
Blocked(t) == t \in {"waiting", "in_handler", "in_callback", "sending", "sleeping"}

ProcessLive == main_pc # "exited"

mainVars == <<running, sse_client, main_pc, stop_pc, stop_ctx, stop_log, exit_code, opens>>
eventVars == <<delivered, cur, cur_status, prev_status, reply, nsends, last_send, invoked,
               handler_exc>>

(***************************************************************************)
(* coral_connector.main / YonaCoralConnector.start                         *)
(***************************************************************************)
\* start(): the agent, the processor and the client are built, and
\* CoralSSEClient.connect issues requests.get(base_url, params, stream=True),
\* which carries no timeout
StartOpen ==
    /\ main_pc = "init"
    /\ sse_client' = TRUE
    /\ opens' = opens + 1
    /\ main_pc' = "connecting"
    /\ UNCHANGED <<retryVars, httpVars, handler_kind, running, connected, stop_event, stream,
                   listen_thread, listen_end, heartbeat_thread, stop_pc, stop_ctx,
                   stop_log, exit_code, eventVars>>

\* the server answers with a success status: connect() sets connected,
\* starts both threads and returns True; start() sets running
StartConnected ==
    /\ main_pc = "connecting"
    /\ connected' = TRUE
    /\ stream' = "open"
    /\ listen_thread' = "waiting"
    /\ heartbeat_thread' = "check"
    /\ running' = TRUE
    /\ main_pc' = "run"
    /\ UNCHANGED <<retryVars, httpVars, handler_kind, sse_client, opens, stop_event, listen_end, stop_pc,
                   stop_ctx, stop_log, exit_code, eventVars>>

\* connect() fails (requests.get or raise_for_status raises): it returns
\* False, start() returns False and main() calls sys.exit(1)
StartConnectFails ==
    /\ main_pc = "connecting"
    /\ connected' = FALSE
    /\ main_pc' = "exited"
    /\ exit_code' = 1
    /\ UNCHANGED <<retryVars, httpVars, handler_kind, running, sse_client, opens, stop_event, stream,
                   listen_thread, listen_end, heartbeat_thread, stop_pc, stop_ctx,
                   stop_log, eventVars>>

\* create_yona_agent raises before the client exists: start() returns False
StartInitFails ==
    /\ main_pc = "init"
    /\ main_pc' = "exited"
    /\ exit_code' = 1
    /\ UNCHANGED <<retryVars, httpVars, handler_kind, running, sse_client, connected, stop_event, stream,
                   listen_thread, listen_end, heartbeat_thread, stop_pc, stop_ctx,
                   stop_log, opens, eventVars>>

\* run(): time.sleep(1), then the is_connected() check
RunPoll ==
    /\ main_pc = "run"
    /\ running
    /\ IF ~connected
       THEN \* break, then the finally clause calls stop()
            /\ main_pc' = "stop"
            /\ stop_pc' = "enter"
            /\ stop_ctx' = "run"
       ELSE UNCHANGED <<main_pc, stop_pc, stop_ctx>>
    /\ UNCHANGED <<retryVars, httpVars, handler_kind, running, sse_client, connected, stop_event, stream,
                   listen_thread, listen_end, heartbeat_thread, stop_log, exit_code,
                   opens, eventVars>>

\* one SIGINT / SIGTERM is delivered in a run of the process
SignalSeen ==
    \/ stop_ctx \in {"signal", "signal_exit", "finally"}
    \/ \E i \in DOMAIN stop_log : stop_log[i].ctx \in {"signal", "signal_exit"}

\* SIGINT / SIGTERM while run() sleeps: _signal_handler calls stop()
Signal ==
    /\ main_pc = "run"
    /\ ~SignalSeen
    /\ main_pc' = "stop"
    /\ stop_pc' = "enter"
    /\ stop_ctx' = "signal"
    /\ UNCHANGED <<retryVars, httpVars, handler_kind, running, sse_client, connected, stop_event, stream,
                   listen_thread, listen_end, heartbeat_thread, stop_log, exit_code,
                   opens, eventVars>>

\* SIGINT / SIGTERM outside run()'s try block: before start() (the handlers
\* are registered by __init__), while connect() waits for the server,
\* between start() and run()'s try (main prints the status there), or while
\* run()'s finally clause executes stop(), which the handler's own stop()
\* call then interrupts
SignalOutsideRun ==
    /\ \/ main_pc \in {"init", "connecting", "run"}
       \/ main_pc = "stop" /\ stop_ctx = "run"
    /\ ~SignalSeen
    /\ main_pc' = "stop"
    /\ stop_pc' = "enter"
    /\ stop_ctx' = "signal_exit"
    /\ UNCHANGED <<retryVars, httpVars, handler_kind, running, sse_client, connected, stop_event, stream,
                   listen_thread, listen_end, heartbeat_thread, stop_log, exit_code,
                   opens, eventVars>>

(***************************************************************************)
(* YonaCoralConnector.stop / CoralSSEClient.disconnect                     *)
(***************************************************************************)
\* `if self.sse_client:` without the guard stop() would call disconnect()
\* on whatever the field holds
stop_calls_disconnect_unguarded(client) == TRUE

stop_calls_disconnect(client) == client

\* self.running = False, then the guarded disconnect().  A disconnect() call
\* on None raises AttributeError, which leaves stop() and ends the process
\* with status 1.
StopEnter ==
    /\ main_pc = "stop" /\ stop_pc = "enter"
    /\ running' = FALSE
    /\ LET calls == stop_calls_disconnect(sse_client)
           raises == calls /\ ~sse_client
       IN  /\ stop_log' = Append(stop_log, [ctx |-> stop_ctx, was_connected |-> connected,
                                            had_client |-> sse_client, error |-> raises,
                                            returned |-> FALSE, alive |-> {}])
           /\ IF raises
              THEN /\ main_pc' = "exited"
                   /\ exit_code' = 1
                   /\ stop_pc' = "none"
                   /\ stop_ctx' = "none"
              ELSE /\ stop_pc' = IF calls THEN "set_connected" ELSE "return"
                   /\ UNCHANGED <<main_pc, exit_code, stop_ctx>>
    /\ UNCHANGED <<retryVars, httpVars, handler_kind, sse_client, connected, stop_event, stream,
                   listen_thread, listen_end, heartbeat_thread, opens, eventVars>>

\* self.connected = False
DisconnectClearConnected ==
    /\ main_pc = "stop" /\ stop_pc = "set_connected"
    /\ connected' = FALSE
    /\ stop_pc' = "set_event"
    /\ UNCHANGED <<retryVars, httpVars, handler_kind, running, sse_client, stop_event, stream, listen_thread,
                   listen_end, heartbeat_thread, main_pc, stop_ctx, stop_log, exit_code,
                   opens, eventVars>>

\* self.stop_event.set()
DisconnectSetEvent ==
    /\ main_pc = "stop" /\ stop_pc = "set_event"
    /\ stop_event' = TRUE
    /\ stop_pc' = "join_listen"
    /\ UNCHANGED <<retryVars, httpVars, handler_kind, running, sse_client, connected, stream, listen_thread,
                   listen_end, heartbeat_thread, main_pc, stop_ctx, stop_log, exit_code,
                   opens, eventVars>>

\* listen_thread.join(timeout=5): returns when the thread has ended or, with
\* the thread still alive, when the 5 seconds are over
DisconnectJoinListen ==
    /\ main_pc = "stop" /\ stop_pc = "join_listen"
    /\ ~Alive(listen_thread) \/ Blocked(listen_thread)
    /\ stop_pc' = "join_heartbeat"
    /\ UNCHANGED <<retryVars, httpVars, handler_kind, running, sse_client, connected, stop_event, stream,
                   listen_thread, listen_end, heartbeat_thread, main_pc, stop_ctx,
                   stop_log, exit_code, opens, eventVars>>

\* heartbeat_thread.join(timeout=5)
DisconnectJoinHeartbeat ==
    /\ main_pc = "stop" /\ stop_pc = "join_heartbeat"
    /\ ~Alive(heartbeat_thread) \/ Blocked(heartbeat_thread)
    /\ stop_pc' = "close"
    /\ UNCHANGED <<retryVars, httpVars, handler_kind, running, sse_client, connected, stop_event, stream,
                   listen_thread, listen_end, heartbeat_thread, main_pc, stop_ctx,
                   stop_log, exit_code, opens, eventVars>>

\* if self.client: self.client.close()
DisconnectClose ==
    /\ main_pc = "stop" /\ stop_pc = "close"
    /\ stream' = IF stream = "none" THEN "none" ELSE "closed"
    /\ stop_pc' = "return"
    /\ UNCHANGED <<retryVars, httpVars, handler_kind, running, sse_client, connected, stop_event,
                   listen_thread, listen_end, heartbeat_thread, main_pc, stop_ctx,
                   stop_log, exit_code, opens, eventVars>>

AliveThreads ==
    (IF Alive(listen_thread) THEN {"listen"} ELSE {})
    \cup (IF Alive(heartbeat_thread) THEN {"heartbeat"} ELSE {})

\* stop() returns.  Called from run()'s finally clause, run() and main()
\* return; called from _signal_handler, sys.exit(0) follows: raised inside
\* run()'s try block the SystemExit passes the finally clause, which calls
\* stop() once more, raised anywhere else it ends the process.
\* a signal handler that reports the termination as a failure
exit_status_signal_fails(ctx) == IF ctx \in {"finally", "signal_exit"} THEN 1 ELSE 0

\* the status the process ends with once the last stop() has returned:
\* main() returns after run() (ctx "run"), or the handler's sys.exit(0)
\* takes effect (ctx "signal_exit", and "finally" when it passed run()'s
\* finally clause)
exit_status(ctx) == 0

StopReturn ==
    /\ main_pc = "stop" /\ stop_pc = "return"
    /\ stop_log' = [stop_log EXCEPT ![Len(stop_log)] =
                       [@ EXCEPT !.returned = TRUE, !.alive = AliveThreads]]
    /\ IF stop_ctx = "signal"
       THEN /\ stop_ctx' = "finally"
            /\ stop_pc' = "enter"
            /\ UNCHANGED <<main_pc, exit_code>>
       ELSE /\ stop_ctx' = "none"
            /\ stop_pc' = "none"
            /\ main_pc' = "exited"
            /\ exit_code' = exit_status(stop_ctx)
    /\ UNCHANGED <<retryVars, httpVars, handler_kind, running, sse_client, connected, stop_event, stream,
                   listen_thread, listen_end, heartbeat_thread, opens, eventVars>>


(***************************************************************************)
(* CoralSSEClient._heartbeat                                               *)
(***************************************************************************)
threadVars == <<retryVars, httpVars, handler_kind, mainVars, stream>>

\* while self.connected and not self.stop_event.is_set():
\* a heartbeat that is run from the listener's loop, between two events
HeartbeatRunnable_inline == ProcessLive /\ listen_thread \notin {"waiting", "in_handler"}

\* the heartbeat loop has a thread of its own and takes no lock: it can
\* take its next step whenever the process lives
HeartbeatRunnable == ProcessLive

HeartbeatCheck ==
    /\ HeartbeatRunnable
    /\ heartbeat_thread = "check"
    /\ heartbeat_thread' = IF connected /\ ~stop_event THEN "sleeping" ELSE "done"
    /\ UNCHANGED <<threadVars, connected, stop_event, listen_thread, listen_end,
                   eventVars>>

\* time.sleep(30) is over: `if self.connected:`
HeartbeatWake ==
    /\ HeartbeatRunnable
    /\ heartbeat_thread = "sleeping"
    /\ heartbeat_thread' = IF connected THEN "beat" ELSE "check"
    /\ UNCHANGED <<threadVars, connected, stop_event, listen_thread, listen_end,
                   eventVars>>

\* the period's heartbeat: the record {type, agent_id, timestamp} is built
\* and passed to logger.debug; no request is made with it, so the outbound
\* channel (last_send) is as it was.  The loop condition comes next.
HeartbeatBeat ==
    /\ HeartbeatRunnable
    /\ heartbeat_thread = "beat"
    /\ heartbeat_thread' = "check"
    /\ UNCHANGED <<threadVars, connected, stop_event, listen_thread, listen_end,
                   eventVars>>

(***************************************************************************)
(* CoralSSEClient._listen_for_messages                                     *)
(***************************************************************************)
\* self.client.events() yields the next event
\* a listener that hands each event to a worker and reads on
listener_ready_concurrent(t) == t \in {"waiting", "in_handler"}

\* the for loop asks the stream for its next event only when the body has
\* finished with the previous one: message_handler is called in the loop
listener_ready(t) == t = "waiting"

Deliver ==
    /\ ProcessLive
    /\ listener_ready(listen_thread)
    /\ stream = "open"
    /\ delivered < MaxEvents
    /\ \E e \in EventsFor(handler_kind) :
        /\ cur' = e
        /\ cur_status' = "pending"
        /\ prev_status' = cur_status
        /\ reply' = NoReply
        /\ nsends' = 0
        /\ last_send' = NoSend
        /\ invoked' = 0
        /\ handler_exc' = "none"
    /\ delivered' = delivered + 1
    /\ listen_thread' = "got_event"
    /\ UNCHANGED <<threadVars, connected, stop_event, listen_end, heartbeat_thread>>

\* the stream ends (the server closes it, or the response was closed by
\* disconnect): the for loop ends normally and the thread returns
StreamEOF ==
    /\ ProcessLive
    /\ listen_thread = "waiting"
    /\ listen_thread' = "done"
    /\ listen_end' = "eof"
    /\ UNCHANGED <<threadVars, connected, stop_event, heartbeat_thread, eventVars>>

\* reading the stream raises (socket error): the outer except clause
StreamError ==
    /\ ProcessLive
    /\ listen_thread = "waiting"
    /\ listen_thread' = "done"
    /\ listen_end' = "error"
    /\ connected' = FALSE
    /\ UNCHANGED <<threadVars, stop_event, heartbeat_thread, eventVars>>

\* JSONDecodeError caught by the outer except clause only: the loop ends
on_decode_error_fatal(c) == [thread |-> "done", end |-> "error", connected |-> FALSE]

\* where the loop stands after json.loads raised JSONDecodeError
on_decode_error(c) == [thread |-> "waiting", end |-> "none", connected |-> c]

\* where the loop stands after message_handler raised
on_handler_error(c) == [thread |-> "waiting", end |-> "none", connected |-> c]

\* _handle_message from the return of process_message on: a send to issue,
\* an exception for the listener's except clause, or nothing left to do
after_handle_message(m, response, c) ==
    IF handle_message_raises(m, response) # "none"
    THEN LET o == on_handler_error(c) IN
         [thread |-> o.thread, end |-> o.end, connected |-> o.connected,
          status |-> "handled", exc |-> handle_message_raises(m, response)]
    ELSE IF handle_message(m, response).kind # "none"
    THEN [thread |-> "sending", end |-> "none", connected |-> c,
          status |-> "handling", exc |-> "none"]
    ELSE [thread |-> "waiting", end |-> "none", connected |-> c,
          status |-> "handled", exc |-> "none"]

\* the loop body up to the call of a registry handler (or of a generic
\* message handler), or to the end of the body when none is called
ListenerStep ==
    /\ ProcessLive
    /\ listen_thread = "got_event"
    /\ IF stop_event
       THEN \* break
            /\ listen_thread' = "done"
            /\ listen_end' = "break"
            /\ cur_status' = "dropped"
            /\ UNCHANGED <<connected, reply, invoked, handler_exc>>
       ELSE IF cur.json = "empty"
       THEN /\ listen_thread' = "waiting"
            /\ cur_status' = "skipped_empty"
            /\ UNCHANGED <<listen_end, connected, reply, invoked, handler_exc>>
       ELSE IF cur.json = "bad"
       THEN LET o == on_decode_error(connected) IN
            /\ listen_thread' = o.thread
            /\ listen_end' = o.end
            /\ connected' = o.connected
            /\ cur_status' = "skipped_bad"
            /\ UNCHANGED <<reply, invoked, handler_exc>>
       ELSE IF handler_kind = "generic"
       THEN /\ listen_thread' = "in_callback"
            /\ cur_status' = "handling"
            /\ UNCHANGED <<listen_end, connected, reply, invoked, handler_exc>>
       ELSE IF handler_invoked(cur)
       THEN /\ listen_thread' = "in_handler"
            /\ cur_status' = "handling"
            /\ invoked' = invoked + 1
            /\ UNCHANGED <<listen_end, connected, reply, handler_exc>>
       ELSE LET o == after_handle_message(cur, process_message(cur), connected) IN
            /\ reply' = process_message(cur)
            /\ listen_thread' = o.thread
            /\ connected' = o.connected
            /\ cur_status' = o.status
            /\ handler_exc' = o.exc
            /\ UNCHANGED <<listen_end, invoked>>
    /\ UNCHANGED <<threadVars, stop_event, heartbeat_thread, delivered, cur,
                   prev_status, nsends, last_send>>

\* a message handler other than the connector's returns or raises
CallbackDone ==
    /\ ProcessLive
    /\ listen_thread = "in_callback"
    /\ \E raised \in BOOLEAN :
        IF raised
        THEN LET o == on_handler_error(connected) IN
             /\ listen_thread' = o.thread
             /\ listen_end' = o.end
             /\ connected' = o.connected
             /\ cur_status' = "handler_raised"
             /\ handler_exc' = "Exception"
        ELSE /\ listen_thread' = "waiting"
             /\ cur_status' = "handled"
             /\ UNCHANGED <<listen_end, connected, handler_exc>>
    /\ UNCHANGED <<threadVars, stop_event, heartbeat_thread, delivered, cur,
                   prev_status, reply, nsends, last_send, invoked>>

\* the registry handler returns or raises; process_message returns
HandlerDone ==
    /\ ProcessLive
    /\ listen_thread = "in_handler"
    /\ LET o == after_handle_message(cur, process_message(cur), connected) IN
        /\ reply' = process_message(cur)
        /\ listen_thread' = o.thread
        /\ connected' = o.connected
        /\ cur_status' = o.status
        /\ handler_exc' = o.exc
    /\ UNCHANGED <<threadVars, stop_event, listen_end, heartbeat_thread,
                   delivered, cur, prev_status, nsends, last_send, invoked>>

\* send_response / send_error_response: the POST succeeds (True) or fails
\* (False); _handle_message logs the result and returns
\* a caller that issues the send again when it was told False
on_send_result_retry(success, c) ==
    IF success
    THEN [thread |-> "waiting", status |-> "handled", connected |-> c]
    ELSE [thread |-> "sending", status |-> "handling", connected |-> c]

\* _handle_message with the bool send_response / send_error_response
\* returned: it logs success or failure and returns to the listener loop
on_send_result(success, c) ==
    [thread |-> "waiting", status |-> "handled", connected |-> c]

SendReply ==
    /\ ProcessLive
    /\ listen_thread = "sending"
    /\ \E ok \in BOOLEAN :
        LET o == on_send_result(ok, connected) IN
        /\ last_send' = [handle_message(cur, reply) EXCEPT !.ok = ok]
        /\ listen_thread' = o.thread
        /\ cur_status' = o.status
        /\ connected' = o.connected
    /\ nsends' = nsends + 1
    /\ UNCHANGED <<threadVars, stop_event, listen_end, heartbeat_thread,
                   delivered, cur, prev_status, reply, invoked, handler_exc>>

NextConn ==
    \/ StartOpen \/ StartConnected \/ StartConnectFails \/ StartInitFails
    \/ RunPoll \/ Signal \/ SignalOutsideRun
    \/ StopEnter \/ DisconnectClearConnected \/ DisconnectSetEvent
    \/ DisconnectJoinListen \/ DisconnectJoinHeartbeat \/ DisconnectClose
    \/ StopReturn
    \/ HeartbeatCheck \/ HeartbeatWake \/ HeartbeatBeat
    \/ Deliver \/ StreamEOF \/ StreamError
    \/ ListenerStep \/ CallbackDone \/ HandlerDone \/ SendReply


(***************************************************************************)
(* The retry loops.  An attempt opens MultiServerMCPClient and runs the    *)
(* agent in the session; its outcome is the remote's choice:               *)
(*   "open_closed"    the open raises ClosedResourceError                  *)
(*   "open_error"     the open raises another exception                    *)
(*   "session_closed" the session opens, then raises ClosedResourceError   *)
(*   "session_error"  the session opens, then raises another exception     *)
(*   "session_end"    the session opens and ainvoke returns                *)
(***************************************************************************)
Outcomes == {"open_closed", "open_error", "session_closed", "session_error",
             "session_end"}

Opened(o) == o \in {"session_closed", "session_error", "session_end"}

ClosedResource(o) == o \in {"open_closed", "session_closed"}

InitRetry ==
    /\ lc_pc = "loop" /\ lc_attempt = 0 /\ lc_connects = 0 /\ lc_failures = 0
    /\ lc_sessions = 0 /\ lc_exit = -1
    /\ ag_pc = "loop" /\ ag_attempt = 0 /\ ag_connects = 0 /\ ag_failures = 0
    /\ ag_sessions = 0 /\ ag_exit = -1

\* ---- yona_coral_langchain_agent.main ----
lc_max_retries == 5

\* the increment forgotten
lc_count_failure_lost(attempt) == attempt

\* attempt += 1
lc_count_failure(attempt) == attempt + 1

\* a loop that starts counting afresh once a connection has been opened
lc_attempt_after_open_reset(attempt) == 0

\* `attempt` once MultiServerMCPClient has been entered: the body of the
\* `async with` block holds no assignment to it
lc_attempt_after_open(attempt) == attempt

\* `attempt` when the attempt's outcome is known, before the except clauses
lc_attempt_at_outcome(o, attempt) ==
    IF Opened(o) THEN lc_attempt_after_open(attempt) ELSE attempt

\* while attempt < max_retries:
LcLoop ==
    /\ lc_pc = "loop"
    /\ IF lc_attempt < lc_max_retries
       THEN lc_pc' = "connect" /\ UNCHANGED lc_exit
       ELSE \* the loop ends, main returns and asyncio.run returns
            lc_pc' = "done" /\ lc_exit' = 0
    /\ UNCHANGED <<lc_attempt, lc_connects, lc_failures, lc_sessions, agVars, connVars, httpVars>>

LcAttempt ==
    /\ lc_pc = "connect"
    /\ lc_connects < MaxConnects
    /\ lc_connects' = lc_connects + 1
    /\ \E o \in Outcomes :
        /\ lc_sessions' = IF Opened(o) THEN lc_sessions + 1 ELSE lc_sessions
        /\ lc_failures' = IF Opened(o) THEN 0 ELSE lc_failures + 1
        /\ IF o = "session_end"
           THEN \* the while condition is evaluated again, attempt unchanged
                /\ lc_pc' = "loop"
                /\ lc_attempt' = lc_attempt_at_outcome(o, lc_attempt)
                /\ UNCHANGED lc_exit
           ELSE IF ClosedResource(o)
           THEN /\ lc_attempt' = lc_count_failure(lc_attempt_at_outcome(o, lc_attempt))
                /\ IF lc_attempt' < lc_max_retries
                   THEN lc_pc' = "backoff" /\ UNCHANGED lc_exit
                   ELSE \* break
                        lc_pc' = "done" /\ lc_exit' = 0
           ELSE \* except Exception: break
                /\ lc_pc' = "done" /\ lc_exit' = 0
                /\ lc_attempt' = lc_attempt_at_outcome(o, lc_attempt)
    /\ UNCHANGED <<agVars, connVars, httpVars>>

\* await asyncio.sleep(5); continue
LcBackoff ==
    /\ lc_pc = "backoff"
    /\ lc_pc' = "loop"
    /\ UNCHANGED <<lc_attempt, lc_connects, lc_failures, lc_sessions, lc_exit, agVars,
                   connVars, httpVars>>

\* ---- YonaCoralAgent.run ----
ag_max_retries == 3

\* the for loop takes the next value of range(max_retries)
ag_next_attempt(attempt) == attempt + 1

\* for attempt in range(max_retries):
AgLoop ==
    /\ ag_pc = "loop"
    /\ IF ag_attempt < ag_max_retries
       THEN ag_pc' = "connect" /\ UNCHANGED ag_exit
       ELSE \* range exhausted: run and main return
            ag_pc' = "done" /\ ag_exit' = 0
    /\ UNCHANGED <<ag_attempt, ag_connects, ag_failures, ag_sessions, lcVars, connVars, httpVars>>

AgAttempt ==
    /\ ag_pc = "connect"
    /\ ag_connects < MaxConnects
    /\ ag_connects' = ag_connects + 1
    /\ \E o \in Outcomes :
        /\ ag_sessions' = IF Opened(o) THEN ag_sessions + 1 ELSE ag_sessions
        /\ ag_failures' = IF Opened(o) THEN 0 ELSE ag_failures + 1
        /\ IF o = "session_end"
           THEN \* the loop body ends: next iteration
                /\ ag_attempt' = ag_next_attempt(ag_attempt)
                /\ ag_pc' = "loop"
                /\ UNCHANGED ag_exit
           ELSE \* both except clauses: retry while attempt < max_retries - 1
                IF ag_attempt < ag_max_retries - 1
                THEN ag_pc' = "backoff" /\ UNCHANGED <<ag_attempt, ag_exit>>
                ELSE \* raise: caught by `except Exception` under __main__,
                     \* which prints the error; the interpreter exits with 0
                     ag_pc' = "done" /\ ag_exit' = 0 /\ UNCHANGED ag_attempt
    /\ UNCHANGED <<lcVars, connVars, httpVars>>

\* await asyncio.sleep(5); continue
AgBackoff ==
    /\ ag_pc = "backoff"
    /\ ag_attempt' = ag_next_attempt(ag_attempt)
    /\ ag_pc' = "loop"
    /\ UNCHANGED <<ag_connects, ag_failures, ag_sessions, ag_exit, lcVars, connVars, httpVars>>

NextRetry == LcLoop \/ LcAttempt \/ LcBackoff \/ AgLoop \/ AgAttempt \/ AgBackoff

(***************************************************************************)
(* Specifications                                                          *)
(***************************************************************************)
(***************************************************************************)
(* YonaCoralHttpAgent: start() and the two loops it runs in daemon threads  *)
(* on one CoralHttpClient, whose requests all go through self.session.     *)
(***************************************************************************)
MaxRequests == 2

InitHttp ==
    /\ h_running = FALSE
    /\ h_session = "none"
    /\ h_heartbeat_thread = "none"
    /\ h_message_thread = "none"
    /\ h_mentions = 0
    /\ h_polls = 0
    /\ h_beats = 0

\* the process lives until start()'s finally clause has run
HttpLive == h_session = "open"

\* start(): register_agent succeeds, running is set and both threads start
HttpStart ==
    /\ h_session = "none"
    /\ h_session' = "open"
    /\ h_running' = TRUE
    /\ h_heartbeat_thread' = "check"
    /\ h_message_thread' = "check"
    /\ UNCHANGED <<h_mentions, h_polls, h_beats, connVars, retryVars>>

\* start(): the wrapper is unavailable or register_agent fails; start()
\* returns False through its finally clause
HttpStartFails ==
    /\ h_session = "none"
    /\ h_session' = "closed"
    /\ UNCHANGED <<h_running, h_heartbeat_thread, h_message_thread, h_mentions, h_polls,
                   h_beats, connVars, retryVars>>

\* except KeyboardInterrupt: self.running = False
HttpInterrupt ==
    /\ HttpLive /\ h_running
    /\ h_running' = FALSE
    /\ UNCHANGED <<h_session, h_heartbeat_thread, h_message_thread, h_mentions, h_polls,
                   h_beats, connVars, retryVars>>

\* finally: self.coral_client.close()
HttpClose ==
    /\ HttpLive /\ ~h_running
    /\ h_session' = "closed"
    /\ UNCHANGED <<h_running, h_heartbeat_thread, h_message_thread, h_mentions, h_polls,
                   h_beats, connVars, retryVars>>

\* heartbeat_loop: `while self.running:`, then coral_client.heartbeat()
\* issues self.session.post
HbCheck ==
    /\ HttpLive
    /\ h_heartbeat_thread = "check"
    /\ h_running => h_beats < MaxRequests
    /\ h_heartbeat_thread' = IF h_running THEN "in_heartbeat" ELSE "done"
    /\ h_beats' = IF h_running THEN h_beats + 1 ELSE h_beats
    /\ UNCHANGED <<h_running, h_session, h_message_thread, h_mentions, h_polls,
                   connVars, retryVars>>

\* the POST returns or times out (5 s); time.sleep(30) follows
HbRequestEnd ==
    /\ HttpLive
    /\ h_heartbeat_thread = "in_heartbeat"
    /\ h_heartbeat_thread' = "sleeping"
    /\ UNCHANGED <<h_running, h_session, h_message_thread, h_mentions, h_polls, h_beats,
                   connVars, retryVars>>

HbWake ==
    /\ HttpLive
    /\ h_heartbeat_thread = "sleeping"
    /\ h_heartbeat_thread' = "check"
    /\ UNCHANGED <<h_running, h_session, h_message_thread, h_mentions, h_polls, h_beats,
                   connVars, retryVars>>

\* message_loop: `while self.running:`, then wait_for_mentions(timeout=10)
\* issues self.session.get
MlCheck ==
    /\ HttpLive
    /\ h_message_thread = "check"
    /\ h_running => h_polls < MaxRequests
    /\ h_message_thread' = IF h_running THEN "in_wait" ELSE "done"
    /\ h_polls' = IF h_running THEN h_polls + 1 ELSE h_polls
    /\ UNCHANGED <<h_running, h_session, h_heartbeat_thread, h_mentions, h_beats,
                   connVars, retryVars>>

\* the GET returns a list of mentions, empty on a timeout or an error
MlWaitEnd ==
    /\ HttpLive
    /\ h_message_thread = "in_wait"
    /\ \E n \in 0..MaxRequests :
        /\ h_mentions' = n
        /\ h_message_thread' = IF n > 0 THEN "processing" ELSE "check"
    /\ UNCHANGED <<h_running, h_session, h_heartbeat_thread, h_polls, h_beats,
                   connVars, retryVars>>

\* one mention: skipped when its sender is the agent itself or when there
\* is no thread id; otherwise process_message (on http_session) returns and
\* coral_client.send_message issues self.session.post
MlProcess ==
    /\ HttpLive
    /\ h_message_thread = "processing"
    /\ \E answered \in BOOLEAN :
        IF answered
        THEN /\ h_message_thread' = "in_send"
             /\ UNCHANGED h_mentions
        ELSE /\ h_mentions' = h_mentions - 1
             /\ h_message_thread' = IF h_mentions' > 0 THEN "processing" ELSE "check"
    /\ UNCHANGED <<h_running, h_session, h_heartbeat_thread, h_polls, h_beats,
                   connVars, retryVars>>

\* the POST of send_message returns; the for loop takes the next mention
MlSendEnd ==
    /\ HttpLive
    /\ h_message_thread = "in_send"
    /\ h_mentions' = h_mentions - 1
    /\ h_message_thread' = IF h_mentions' > 0 THEN "processing" ELSE "check"
    /\ UNCHANGED <<h_running, h_session, h_heartbeat_thread, h_polls, h_beats,
                   connVars, retryVars>>

(***************************************************************************)
(* A CoralSSEClient used on its own: a caller that holds the instance      *)
(* calls connect(handler) and disconnect() in turn.                        *)
(***************************************************************************)
MaxOpens == 2

\* CoralSSEClient(agent_id, agent_description)
ClientCreate ==
    /\ main_pc = "init"
    /\ handler_kind = "generic"
    /\ sse_client' = TRUE
    /\ main_pc' = "client"
    /\ UNCHANGED <<retryVars, httpVars, handler_kind, running, connected, stop_event, stream,
                   listen_thread, listen_end, heartbeat_thread, stop_pc, stop_ctx,
                   stop_log, exit_code, opens, eventVars>>

\* connect() returns True: connected is set and two new threads are
\* started.  The method does not touch stop_event, which only __init__
\* creates and only disconnect() sets.
ClientConnect ==
    /\ main_pc = "client"
    /\ ~connected
    /\ ~Alive(listen_thread) /\ ~Alive(heartbeat_thread)
    /\ opens < MaxOpens
    /\ opens' = opens + 1
    /\ connected' = TRUE
    /\ stream' = "open"
    /\ listen_thread' = "waiting"
    /\ listen_end' = "none"
    /\ heartbeat_thread' = "check"
    /\ UNCHANGED <<retryVars, httpVars, handler_kind, running, sse_client, stop_event, main_pc,
                   stop_pc, stop_ctx, stop_log, exit_code, eventVars>>

\* connect() returns False
ClientConnectFails ==
    /\ main_pc = "client"
    /\ ~connected
    /\ opens < MaxOpens
    /\ opens' = opens + 1
    /\ UNCHANGED <<retryVars, httpVars, handler_kind, running, sse_client, connected, stop_event,
                   stream, listen_thread, listen_end, heartbeat_thread, main_pc, stop_pc,
                   stop_ctx, stop_log, exit_code, eventVars>>

\* the caller calls disconnect()
ClientDisconnect ==
    /\ main_pc = "client"
    /\ opens > 0
    /\ main_pc' = "stop"
    /\ stop_pc' = "set_connected"
    /\ stop_ctx' = "client"
    /\ UNCHANGED <<retryVars, httpVars, handler_kind, running, sse_client, connected, stop_event,
                   stream, listen_thread, listen_end, heartbeat_thread, stop_log,
                   exit_code, opens, eventVars>>

\* disconnect() returns to the caller
ClientDisconnectReturn ==
    /\ main_pc = "stop" /\ stop_pc = "return" /\ stop_ctx = "client"
    /\ main_pc' = "client"
    /\ stop_pc' = "none"
    /\ stop_ctx' = "none"
    /\ UNCHANGED <<retryVars, httpVars, handler_kind, running, sse_client, connected, stop_event,
                   stream, listen_thread, listen_end, heartbeat_thread, stop_log,
                   exit_code, opens, eventVars>>

NextClient ==
    \/ ClientCreate \/ ClientConnect \/ ClientConnectFails
    \/ ClientDisconnect \/ ClientDisconnectReturn
    \/ DisconnectClearConnected \/ DisconnectSetEvent
    \/ DisconnectJoinListen \/ DisconnectJoinHeartbeat \/ DisconnectClose
    \/ HeartbeatCheck \/ HeartbeatWake \/ HeartbeatBeat
    \/ Deliver \/ StreamEOF \/ StreamError
    \/ ListenerStep \/ CallbackDone

NextHttp ==
    \/ HttpStart \/ HttpStartFails \/ HttpInterrupt \/ HttpClose
    \/ HbCheck \/ HbRequestEnd \/ HbWake
    \/ MlCheck \/ MlWaitEnd \/ MlProcess \/ MlSendEnd

Init == InitConn /\ InitRetry /\ InitHttp

\* the connector with its threads, the remote and the signals
SpecConn == Init /\ [][NextConn]_vars

\* the retry loops of the two MCP agent variants
SpecRetry == Init /\ [][NextRetry]_vars

\* the HTTP agent with its two loops
SpecHttp == Init /\ [][NextHttp]_vars

\* a CoralSSEClient connected and disconnected by its caller
SpecClient == Init /\ [][NextClient]_vars

\* the threads of the connector are scheduled fairly: the main thread's
\* poll and stop(), the heartbeat thread, and the listener once it holds an
\* event.  The remote and the signals are under no obligation.
FairConn ==
    /\ WF_vars(StartOpen)
    /\ WF_vars(RunPoll)
    /\ WF_vars(StopEnter \/ DisconnectClearConnected \/ DisconnectSetEvent
               \/ DisconnectJoinListen \/ DisconnectJoinHeartbeat
               \/ DisconnectClose \/ StopReturn)
    /\ WF_vars(HeartbeatCheck \/ HeartbeatWake \/ HeartbeatBeat)
    /\ WF_vars(ListenerStep \/ CallbackDone \/ HandlerDone \/ SendReply)

FairSpecConn == SpecConn /\ FairConn


(***************************************************************************)
(* Claims                                                                  *)
(***************************************************************************)
ConnectorHandled == handler_kind = "connector" /\ cur_status = "handled"

IsFunctionCall(m) == m.json = "dict" /\ m.type = "function_call"

\* C1: every function_call event the connector's handler has handled caused
\* exactly one outbound send (function_response or function_error) carrying
\* the request's metadata.message_id, and an event of any other kind caused
\* no send.
C1_OneSendPerFunctionCall ==
    ConnectorHandled =>
        IF IsFunctionCall(cur)
        THEN /\ nsends = 1
             /\ last_send.kind \in {"function_response", "function_error"}
             /\ last_send.corr = cur.message_id
        ELSE nsends = 0

\* C2: for a function_call naming a registered function, process_message
\* returns function_response when the handler returns and function_error
\* when it raises, with the request's correlation id.
C2_RegisteredCallReplied ==
    (ConnectorHandled /\ IsFunctionCall(cur) /\ cur.function \in SupportedNames) =>
        /\ reply.type = IF handler(cur.function, cur.arguments).raised
                        THEN "function_error" ELSE "function_response"
        /\ reply.corr = cur.message_id

\* C3: once a registry handler was invoked and raised, the reply of
\* process_message is a function_error with the exception's text, the
\* called function's name and the request's correlation id; create_song
\* with empty arguments and correlation id c1 yields
\* "Missing required argument: prompt" with c1.
C3_HandlerExceptionConverted ==
    (handler_kind = "connector" /\ invoked > 0 /\ listen_thread # "in_handler") =>
        /\ handler(cur.function, cur.arguments).raised =>
            /\ reply.type = "function_error"
            /\ reply.error = handler(cur.function, cur.arguments).error
            /\ reply.function = cur.function
            /\ reply.corr = cur.message_id
        /\ (cur.function = "create_song" /\ cur.arguments = "empty"
            /\ cur.message_id = "c1") =>
            reply = Reply("function_error", "create_song",
                          "Missing required argument: prompt", "c1", {})

\* C3 witness: create_song was called with {} and id c1, and was answered
C3_Witness ==
    /\ ConnectorHandled
    /\ invoked = 1
    /\ cur.function = "create_song" /\ cur.arguments = "empty"
    /\ cur.message_id = "c1"
    /\ reply.type = "function_error"

\* C4: for a function_call naming a function outside the registry (or no
\* function), no handler is invoked and process_message returns a
\* function_error that lists every registered name and carries the
\* request's correlation id.
C4_UnregisteredCallRejected ==
    (ConnectorHandled /\ IsFunctionCall(cur)
     /\ cur.function \in {"remix_song", "missing"}) =>
        /\ invoked = 0
        /\ reply.type = "function_error"
        /\ reply.listed = SupportedNames
        /\ reply.corr = cur.message_id

\* C5: a listener step on an event with invalid JSON invokes no handler,
\* returns to the head of the loop and leaves `connected` and the loop's
\* end untouched; so does a step in which the message handler raises; and
\* the valid event that follows either is passed to the handler.
C5_BadEventSkipped ==
    [][ /\ (listen_thread = "got_event" /\ ~stop_event /\ cur.json = "bad"
            /\ listen_thread' # listen_thread)
           => /\ listen_thread' = "waiting"
              /\ cur_status' = "skipped_bad"
              /\ invoked' = invoked /\ nsends' = nsends
              /\ connected' = connected
              /\ listen_end' = "none"
        /\ (listen_thread = "in_callback" /\ cur_status' = "handler_raised")
           => /\ listen_thread' = "waiting"
              /\ connected' = connected
              /\ listen_end' = "none"
        /\ (listen_thread = "got_event" /\ ~stop_event
            /\ prev_status \in {"skipped_bad", "handler_raised"}
            /\ cur.json \in {"dict", "nondict"}
            /\ listen_thread' # listen_thread)
           => cur_status' \in {"handling", "handled"}
      ]_vars

\* C5 witness: an invalid payload was skipped and the next event, a JSON
\* object, was handled on the same connection
C5_Witness ==
    /\ prev_status = "skipped_bad"
    /\ cur.json = "dict"
    /\ cur_status = "handled"
    /\ connected /\ listen_thread = "waiting"

\* C6: while no attempt has opened a session, either retry loop has made at
\* most max_retries attempts, has stopped once max_retries attempts have
\* failed, and makes no attempt after it has stopped.
C6_FiniteAttempts ==
    /\ lc_sessions = 0 => lc_connects <= lc_max_retries
    /\ ag_sessions = 0 => ag_connects <= ag_max_retries
    /\ (lc_sessions = 0 /\ lc_failures >= lc_max_retries) => lc_pc = "done"
    /\ (ag_sessions = 0 /\ ag_failures >= ag_max_retries) => ag_pc = "done"
    /\ lc_pc = "done" => ~ENABLED LcAttempt
    /\ ag_pc = "done" => ~ENABLED AgAttempt

\* C6 witness: both loops gave up after max_retries failed attempts
C6_Witness ==
    /\ lc_pc = "done" /\ lc_sessions = 0 /\ lc_failures = lc_max_retries
    /\ ag_pc = "done" /\ ag_sessions = 0 /\ ag_failures = ag_max_retries

\* C7: a single failed open is not terminal for YonaCoralConnector: the
\* process never ends on a failed start after one connection attempt.
C7_SingleFailedOpenNotTerminal ==
    ~(main_pc = "exited" /\ exit_code = 1 /\ opens = 1)

\* C8: whenever the listener's event sequence has ended, by a socket error
\* or by end-of-stream, eventually `connected` is false and run() has left
\* its polling loop.
C8_StreamEndLeavesConnected ==
    (listen_end \in {"eof", "error"}) ~> (~connected /\ main_pc # "run")

\* C9: when run() detects the loss of the connection with no stop
\* requested, the connector reconnects instead of shutting down: stop() is
\* never entered from run()'s loss branch before another connection attempt.
C9_LossTriggersReconnect ==
    (Len(stop_log) >= 1 /\ stop_log[1].ctx = "run") => opens > 1

\* C10: when a stop() called on a connected connector has returned, running
\* and connected are false, the stop flag is set, and neither the listener
\* nor the heartbeat thread was alive at the return.
C10_StopTerminatesThreads ==
    \A i \in DOMAIN stop_log :
        (stop_log[i].was_connected /\ stop_log[i].returned) =>
            /\ stop_log[i].alive = {}
            /\ ~running /\ ~connected /\ stop_event

\* a stop() call is in progress and an earlier stop() call has returned
InLaterStop ==
    /\ main_pc = "stop"
    /\ \E i \in DOMAIN stop_log : stop_log[i].returned

\* C11: no stop() call raises, whatever the lifecycle state it is called in
\* (no client yet, client created but not connected, connected, already
\* stopped), and no step of a stop() call that follows a completed stop()
\* changes running, connected or the stop flag.
C11_StopIdempotent ==
    /\ [](\A i \in DOMAIN stop_log : ~stop_log[i].error)
    /\ [][InLaterStop => /\ running' = running
                         /\ connected' = connected
                         /\ stop_event' = stop_event]_vars

\* the signal handler's stop() found the connection up and returned, and
\* run()'s finally clause has called stop() again, which returned too
C11_Witness ==
    /\ Len(stop_log) = 2
    /\ stop_log[1].ctx = "signal" /\ stop_log[1].was_connected /\ stop_log[1].returned
    /\ stop_log[2].ctx = "finally" /\ stop_log[2].returned

\* C12: while the connection is up and stop has not been requested, the step
\* that ends a heartbeat period puts a heartbeat message on the outbound
\* channel.
C12_HeartbeatSent ==
    [][(heartbeat_thread = "beat" /\ heartbeat_thread' = "check"
        /\ connected /\ ~stop_event)
       => last_send'.kind = "heartbeat"]_vars

\* C13: a handled heartbeat envelope was answered with heartbeat_response
\* whose capabilities are exactly the registry's names, and a handled
\* agent_discovery envelope with agent_info carrying the agent id, the
\* description and every registered function, both in the function list and
\* in the per-function descriptions.
C13_ProbesAnswered ==
    (ConnectorHandled /\ cur.json = "dict") =>
        /\ cur.type = "heartbeat" =>
              /\ reply.type = "heartbeat_response"
              /\ reply.listed = SupportedNames
        /\ cur.type = "agent_discovery" =>
              /\ reply.type = "agent_info"
              /\ reply.agent_id = "yona_agent"
              /\ reply.description
              /\ reply.listed = SupportedNames
              /\ SupportedNames \subseteq reply.described

\* a heartbeat envelope has been handled and answered
C13_Witness ==
    /\ ConnectorHandled
    /\ cur.json = "dict" /\ cur.type = "heartbeat"
    /\ reply.type = "heartbeat_response"
    /\ reply.listed = {"create_song", "list_songs", "get_song", "search_songs"}

\* C14: every heartbeat_response or agent_info reply that dispatch produced
\* for a handled envelope was delivered by the connector in one outbound
\* send of that kind.
C14_ProbeRepliesDelivered ==
    (ConnectorHandled /\ reply.type \in {"heartbeat_response", "agent_info"}) =>
        /\ nsends = 1
        /\ last_send.kind = reply.type

\* C15: an envelope whose metadata.sender is the agent's own id was handled
\* with no reply and no handler invocation.
C15_OwnMessagesIgnored ==
    (ConnectorHandled /\ cur.json = "dict" /\ cur.sender = "yona_agent") =>
        /\ reply = NoReply
        /\ invoked = 0

UnknownKind(m) == m.json = "dict" /\ m.type \in {"unknown", "missing"}

\* C16: an envelope whose kind is none of function_call, heartbeat and
\* agent_discovery (a missing kind included) is dropped: process_message
\* returned nothing, no handler ran, nothing was sent and no exception left
\* the message handler; and the listener step that handles it returns to the
\* head of the loop with `connected` and the loop's end untouched.
C16_UnknownKindDropped ==
    /\ [](ConnectorHandled /\ UnknownKind(cur) =>
             /\ reply = NoReply
             /\ invoked = 0
             /\ nsends = 0
             /\ handler_exc = "none")
    /\ [][(handler_kind = "connector" /\ listen_thread = "got_event"
            /\ ~stop_event /\ UnknownKind(cur)
            /\ listen_thread' # listen_thread)
           => /\ listen_thread' = "waiting"
              /\ cur_status' = "handled"
              /\ connected' = connected
              /\ listen_end' = listen_end]_vars

\* an envelope of an unknown kind was dropped and the listener, still
\* connected, waits for the next event
C16_Witness ==
    /\ ConnectorHandled /\ UnknownKind(cur)
    /\ cur.type = "unknown"
    /\ reply = NoReply /\ nsends = 0
    /\ listen_thread = "waiting" /\ connected /\ listen_end = "none"

\* C17: a send that fails is recorded with the result False, is the only
\* send issued for its request, leaves `connected` as it was and returns
\* the listener to the head of its loop.
C17_SendFailureDropped ==
    /\ [](nsends <= 1)
    /\ [][(listen_thread = "sending" /\ nsends' # nsends /\ ~last_send'.ok)
           => /\ nsends' = nsends + 1
              /\ last_send'.kind \in {"function_response", "function_error"}
              /\ listen_thread' = "waiting"
              /\ cur_status' = "handled"
              /\ connected' = connected
              /\ listen_end' = listen_end]_vars

\* a reply's only send has failed and the listener, still connected, waits
\* for the next event
C17_Witness ==
    /\ ConnectorHandled
    /\ nsends = 1
    /\ last_send.kind = "function_response" /\ ~last_send.ok
    /\ listen_thread = "waiting" /\ connected /\ listen_end = "none"

SignalStops == {i \in DOMAIN stop_log : stop_log[i].ctx \in {"signal", "signal_exit"}}

\* C18: a process that has ended after a signal ran the handler's stop() to
\* its return first, so that running is false and the SSE client, if one
\* exists, is disconnected (connected false, stop flag set), and its exit
\* status is 0; and a pending signal is always followed by stop().
C18_SignalStopsThenExitsZero ==
    /\ (main_pc = "exited" /\ SignalStops # {}) =>
          /\ \A i \in SignalStops : stop_log[i].returned
          /\ ~running
          /\ sse_client => (~connected /\ stop_event)
          /\ exit_code = 0
    /\ stop_ctx \in {"signal", "signal_exit"} => main_pc = "stop"

\* a signal arrived while the connector was connected and running, and the
\* process has ended
C18_Witness ==
    /\ main_pc = "exited" /\ exit_code = 0
    /\ Len(stop_log) = 2
    /\ stop_log[1].ctx = "signal" /\ stop_log[1].was_connected
    /\ stop_log[2].ctx = "finally"
    /\ ~running /\ ~connected /\ stop_event

\* C19: a process that has given up on the connection (start() failed in
\* coral_connector.main, or a retry loop stopped on its last allowed
\* failure) has ended with a non-zero exit status.
C19_GiveUpExitsNonZero ==
    /\ (main_pc = "exited" /\ stop_log = <<>>) => exit_code > 0
    /\ (lc_pc = "done" /\ lc_attempt = lc_max_retries) => lc_exit > 0
    /\ (ag_pc = "done" /\ ag_failures > 0) => ag_exit > 0

\* C20: a connect() call that waits for the server's answer to the
\* stream-open request eventually returns, with True or with False.
C20_ConnectTerminates == (main_pc = "connecting") ~> (main_pc # "connecting")

(***************************************************************************)
(* get_status                                                              *)
(***************************************************************************)
\* thread.is_alive() called on whatever the field holds: on None it raises
thread_alive_unguarded(t) == [raised |-> t = "none", value |-> Alive(t)]

\* `self.listen_thread.is_alive() if self.listen_thread else False`
thread_alive(t) ==
    IF t # "none" THEN [raised |-> FALSE, value |-> Alive(t)]
    ELSE [raised |-> FALSE, value |-> FALSE]

\* CoralSSEClient.get_status
sse_get_status ==
    [raised |-> thread_alive(listen_thread).raised \/ thread_alive(heartbeat_thread).raised,
     connected |-> connected,
     agent_id |-> "yona_agent",
     listen_thread_alive |-> thread_alive(listen_thread).value,
     heartbeat_thread_alive |-> thread_alive(heartbeat_thread).value]

\* YonaCoralConnector.get_status.  start() assigns yona_agent,
\* message_processor and sse_client one after the other in the step
\* StartOpen, so the three fields are set exactly when sse_client is.
get_status ==
    [raised |-> sse_client /\ sse_get_status.raised,
     running |-> running,
     yona_agent_initialized |-> sse_client,
     message_processor_initialized |-> sse_client,
     sse_client_initialized |-> sse_client,
     client_status |-> sse_client,
     connected |-> sse_client /\ sse_get_status.connected,
     agent_id |-> IF sse_client THEN sse_get_status.agent_id ELSE "none",
     listen_thread_alive |-> sse_client /\ sse_get_status.listen_thread_alive,
     heartbeat_thread_alive |-> sse_client /\ sse_get_status.heartbeat_thread_alive,
     supported_functions |-> IF sse_client THEN SupportedNames ELSE {}]

\* C21: in every state get_status returns without raising; on a connector
\* that was never started it reports running false and the agent, the
\* processor and the client uninitialized; once a client exists it reports
\* connected, the agent id and, for each thread, whether it is alive, which
\* is false for a thread that was never created.
C21_StatusInEveryState ==
    LET status == get_status IN
    /\ ~status.raised
    /\ main_pc = "init" =>
          /\ ~status.running
          /\ ~status.yona_agent_initialized
          /\ ~status.message_processor_initialized
          /\ ~status.sse_client_initialized
          /\ ~status.client_status
    /\ sse_client =>
          /\ status.client_status
          /\ status.connected = connected
          /\ status.agent_id = "yona_agent"
          /\ status.listen_thread_alive = Alive(listen_thread)
          /\ status.heartbeat_thread_alive = Alive(heartbeat_thread)
          /\ listen_thread = "none" => ~status.listen_thread_alive
          /\ heartbeat_thread = "none" => ~status.heartbeat_thread_alive

\* a client exists whose threads were never created: connect() still waits
C21_Witness ==
    /\ sse_client /\ main_pc = "connecting"
    /\ listen_thread = "none" /\ heartbeat_thread = "none"
    /\ ~get_status.listen_thread_alive

\* C22: after a failed open, whatever was raised, the failure counter is
\* incremented, and the loop re-attempts (after the backoff) exactly when
\* the incremented counter is at most max_retries, and gives up otherwise.
C22_RetryWhileCountWithinMax ==
    [][ /\ (lc_pc = "connect" /\ lc_failures' = lc_failures + 1) =>
              /\ lc_attempt' = lc_attempt + 1
              /\ lc_pc' = "backoff" <=> lc_attempt' <= lc_max_retries
              /\ lc_pc' = "done" <=> lc_attempt' > lc_max_retries
        /\ (ag_pc = "connect" /\ ag_failures' = ag_failures + 1) =>
              /\ ag_pc' = "backoff" <=> ag_attempt + 1 <= ag_max_retries
              /\ ag_pc' = "done" <=> ag_attempt + 1 > ag_max_retries
      ]_vars

\* C23: a connection that opened a session which then ended moves the loop
\* towards giving up (the counter grows, or the loop ends or backs off to
\* its next and counted iteration), so that the number of connections a
\* loop makes is bounded by its max_retries.
C23_CrashLoopGivesUp ==
    /\ [][(lc_pc = "connect" /\ lc_sessions' = lc_sessions + 1)
           => (lc_attempt' > lc_attempt \/ lc_pc' = "done")]_vars
    /\ [][(ag_pc = "connect" /\ ag_sessions' = ag_sessions + 1)
           => (ag_attempt' > ag_attempt \/ ag_pc' \in {"done", "backoff"})]_vars
    /\ [](ag_connects <= ag_max_retries)

\* C24 as stated: a connection attempt that succeeds resets the retry
\* counter to 0.
C24_CounterResetOnSuccess ==
    [][ /\ (lc_pc = "connect" /\ lc_sessions' = lc_sessions + 1 /\ lc_pc' = "loop")
              => lc_attempt' = 0
        /\ (ag_pc = "connect" /\ ag_sessions' = ag_sessions + 1 /\ ag_pc' = "loop")
              => ag_attempt' = 0
      ]_vars

\* C24, amended: the retry counter is never reset.  It never decreases, a
\* connection that succeeds in yona_coral_langchain_agent.main leaves it as
\* it is, and one that succeeds in YonaCoralAgent.run is followed by the
\* next loop index.
C24_CounterNeverReset ==
    [][ /\ lc_attempt' >= lc_attempt
        /\ ag_attempt' >= ag_attempt
        /\ (lc_pc = "connect" /\ lc_sessions' = lc_sessions + 1 /\ lc_pc' = "loop")
              => lc_attempt' = lc_attempt
        /\ (ag_pc = "connect" /\ ag_sessions' = ag_sessions + 1 /\ ag_pc' = "loop")
              => ag_attempt' = ag_attempt + 1
      ]_vars

\* a failed open was counted, the next attempt opened a session that ended
\* normally, and the counter still holds the failure
C24_Witness ==
    /\ lc_pc = "loop"
    /\ lc_connects = 2 /\ lc_sessions = 1 /\ lc_failures = 0
    /\ lc_attempt = 1

ListenerBusy == listen_thread \in {"got_event", "in_callback", "in_handler", "sending"}

\* C25: the listener takes event n+1 only when it has finished with event
\* n: while it holds an event (dispatching it, inside its handler, sending
\* its reply) the stream yields it no event, and at the step that takes the
\* next event the previous one is through, its reply send issued.
C25_InOrderOneAtATime ==
    /\ [](ListenerBusy => ~ENABLED Deliver)
    /\ [][delivered' = delivered + 1 =>
            /\ listen_thread = "waiting"
            /\ cur_status \notin {"pending", "handling"}
            /\ (handler_kind = "connector"
                /\ handle_message(cur, reply).kind # "none") => nsends = 1
         ]_vars

\* two events were delivered; the second, a function call, went through its
\* handler and its reply send after the first had been handled
C25_Witness ==
    /\ handler_kind = "connector"
    /\ delivered = 2
    /\ prev_status = "handled" /\ cur_status = "handled"
    /\ invoked = 1 /\ nsends = 1

\* the requests in progress on coral_client.session
SessionUsers ==
    (IF h_heartbeat_thread = "in_heartbeat" THEN {"heartbeat"} ELSE {})
    \cup (IF h_message_thread \in {"in_wait", "in_send"} THEN {"message"} ELSE {})

\* C26: the heartbeat loop's request and the message loop's request on the
\* shared requests.Session are never in progress at the same time.
C26_SessionUseExclusive == Cardinality(SessionUsers) <= 1

\* C27: an event the listener reads once the stop flag is set is not
\* dispatched (no handler runs, nothing is sent, the loop ends), and a
\* handler that is executing when stop() is called runs to completion with
\* its reply sent: the process does not end with a handler or a reply send
\* in progress.
C27_CooperativeCancellation ==
    /\ [][(listen_thread = "got_event" /\ stop_event /\ listen_thread' # listen_thread)
           => /\ listen_thread' = "done"
              /\ invoked' = invoked
              /\ nsends' = nsends]_vars
    /\ [](main_pc = "exited" => listen_thread \notin {"in_handler", "sending"})

\* C28: while the process lives, a listener that is blocked (waiting for
\* the next event, inside a handler or a reply send) leaves the heartbeat
\* thread's next step enabled, and a sleeping heartbeat thread leaves the
\* listener's next step enabled: reading the event the stream has for it,
\* dispatching the event it holds, finishing its handler.
C28_LoopsIndependent ==
    ProcessLive =>
        /\ (listen_thread \in {"waiting", "in_handler", "in_callback", "sending"}
            /\ heartbeat_thread \in {"check", "sleeping", "beat"})
           => ENABLED (HeartbeatCheck \/ HeartbeatWake \/ HeartbeatBeat)
        /\ (heartbeat_thread = "sleeping" /\ listen_thread = "got_event")
           => ENABLED ListenerStep
        /\ (heartbeat_thread = "sleeping" /\ listen_thread = "in_handler")
           => ENABLED HandlerDone
        /\ (heartbeat_thread = "sleeping" /\ listen_thread = "waiting"
            /\ stream = "open" /\ delivered < MaxEvents)
           => ENABLED Deliver

\* the listener is inside a handler while the heartbeat thread sleeps
C28_Witness ==
    /\ ProcessLive
    /\ listen_thread = "in_handler"
    /\ heartbeat_thread = "sleeping"

\* C29: for every function_call envelope the connector has handled,
\* whatever its metadata, arguments and function name, process_message
\* returned a reply of kind function_response or function_error.
C29_FunctionCallAlwaysAnswered ==
    (ConnectorHandled /\ IsFunctionCall(cur)) =>
        reply.type \in {"function_response", "function_error"}

\* the second or a later session of the instance is up and the caller has
\* not called disconnect() in it
Reconnected == main_pc = "client" /\ connected /\ opens >= 2

\* C30: in a session opened by connect() after a disconnect() the stop flag
\* of the earlier session is clear, so the heartbeat loop keeps running and
\* the listener does not leave its loop on an event because of the flag.
C30_ReconnectWorks ==
    Reconnected =>
        /\ ~stop_event
        /\ heartbeat_thread # "done"
        /\ listen_end # "break"

====
